---- MODULE Spec2Model ----
(***************************************************************************)
(* BYTESWEEP dashboard: the two file views, TempFileManager and            *)
(* LargeFileAnalyzer.  Each view is a React function component: its state  *)
(* is the useState cells, its operations are the event handlers and the    *)
(* continuations of the two async functions (scan and cleanup).  The       *)
(* backend is reached over HTTP; a request in flight is an element of net  *)
(* and it resolves or rejects in a later step.  One variable, view, says   *)
(* which of the two components is mounted; the list cell (tempFiles in     *)
(* one component, largeFiles in the other) is the variable files.          *)
(*                                                                         *)
(* Sizes are in MB rather than bytes so that sums stay inside TLC's        *)
(* integers; the handlers only add and compare them.  The size classes of  *)
(* LargeFileAnalyzer compare a size with byte thresholds: they are checked *)
(* under ColorSpec, whose lists hold one file with its size in bytes.      *)
(***************************************************************************)
EXTENDS Integers, Sequences, FiniteSets, Bags, TLC

VARIABLES
    view,            \* "temp" (TempFileManager) or "large" (LargeFileAnalyzer)
    mounted,         \* the mount effect (useEffect) has run
    files,           \* tempFiles / largeFiles
    selectedFiles,   \* Set<string> of file ids
    searchTerm,
    filterType,      \* temp view only
    sortBy,          \* large view only
    sortOrder,       \* large view only
    sizeThreshold,   \* large view only, MB
    isScanning,
    loading,
    error,
    isCleaningUp,    \* temp view only
    cleanupResult,   \* temp view only: <<>> is null, <<r>> is the result r
    net,             \* HTTP requests in flight, a bag: each is awaited by one async call
    lastEvent        \* the network completion or selection handler that ran last

vars == <<view, mounted, files, selectedFiles, searchTerm, filterType, sortBy,
          sortOrder, sizeThreshold, isScanning, loading, error, isCleaningUp,
          cleanupResult, net, lastEvent>>

(***************************************************************************)
(* Bounds of the model.                                                    *)
(***************************************************************************)
\* at most this many HTTP requests are in flight at once
MaxInFlight == 2
\* the longest list of the render specification
MaxListLen == 3
\* the colour specification takes the sizes this close to each threshold
MaxSizeDelta == 2

(***************************************************************************)
(* Data: file records, strings as tuples of characters.                    *)
(***************************************************************************)
File1 == [id |-> 1, name |-> <<"A">>, path |-> <<"t", "A">>, size |-> 600,
          type |-> "log", lastModified |-> 2]
File2 == [id |-> 2, name |-> <<"b">>, path |-> <<"T", "b">>, size |-> 2000,
          type |-> "tmp", lastModified |-> 1]

Catalog == {File1, File2}

\* two more files for the render specification: File3 has the size of File1,
\* File4 the date of File2
File3 == [id |-> 3, name |-> <<"v">>, path |-> <<"a", "v">>, size |-> 600,
          type |-> "tmp", lastModified |-> 3]
File4 == [id |-> 4, name |-> <<"B", "a">>, path |-> <<"t">>, size |-> 1200,
          type |-> "log", lastModified |-> 1]
RenderCatalog == {File1, File2, File3, File4}
Ids == {f.id : f \in Catalog}

\* the lists a fetch may return (response.data.files)
Responses == {<<>>, <<File1, File2>>, <<File2>>}

\* the bodies a cleanup may return (response.data)
CleanupResponses == {[filesRemoved |-> 1, spaceFreed |-> 2000],
                     [filesRemoved |-> 2, spaceFreed |-> 2600]}

SearchTerms == {<<>>, <<"A">>}
RenderTerms == {<<>>, <<"A">>, <<"t", "B">>}
FilterTypes == {"all", "log", "tmp"}
SortKeys == {"size", "name", "date"}
\* the sort keys chosen under Spec, where no handler reads the key (the sort
\* itself is checked with every key under RenderSpec)
LoadedSortKeys == {"size", "date"}
SortOrders == {"asc", "desc"}
Thresholds == {100, 500}

NoError == "null"
TempFetchError == "Failed to load temporary files"
TempCleanupError == "Failed to clean up selected files"
LargeFetchError == "Failed to load large files"
LargeCleanupError == "Failed to delete selected files"

Range(s) == {s[i] : i \in DOMAIN s}

\* String.prototype.toLowerCase on the model's alphabet
LowerChar(c) == CASE c = "A" -> "a" [] c = "B" -> "b" [] c = "T" -> "t"
                  [] c = "V" -> "v" [] OTHER -> c
toLowerCase(s) == [i \in DOMAIN s |-> LowerChar(s[i])]

\* String.prototype.includes
includes(s, t) ==
    \E i \in 0..(Len(s) - Len(t)) : SubSeq(s, i + 1, i + Len(t)) = t

\* Array.prototype.filter: the elements that pass, in the list's order
RECURSIVE FilterSeq(_, _)
FilterSeq(s, keep) ==
    IF s = <<>> THEN <<>>
    ELSE IF Head(s) \in keep THEN <<Head(s)>> \o FilterSeq(Tail(s), keep)
         ELSE FilterSeq(Tail(s), keep)

\* Array.prototype.reduce((sum, file) => sum + file.size, 0)
RECURSIVE SumSize(_)
SumSize(s) == IF s = <<>> THEN 0 ELSE Head(s).size + SumSize(Tail(s))

\* the letters of the model's alphabet in collation order (primary weight)
LetterRank(c) == CASE LowerChar(c) = "a" -> 1 [] LowerChar(c) = "b" -> 2
                   [] LowerChar(c) = "t" -> 3 [] OTHER -> 4

\* the case of a letter (tertiary weight): the lower-case letter first
CaseRank(c) == IF LowerChar(c) = c THEN 0 ELSE 1

CollationWeight(c, level) == IF level = "letter" THEN LetterRank(c) ELSE CaseRank(c)

\* lexicographic comparison of two strings by one weight of their letters:
\* negative, zero or positive
RECURSIVE compareBy(_, _, _)
compareBy(a, b, level) ==
    IF a = <<>> /\ b = <<>> THEN 0
    ELSE IF a = <<>> THEN -1
    ELSE IF b = <<>> THEN 1
    ELSE IF CollationWeight(Head(a), level) # CollationWeight(Head(b), level)
         THEN CollationWeight(Head(a), level) - CollationWeight(Head(b), level)
    ELSE compareBy(Tail(a), Tail(b), level)

\* String.prototype.localeCompare: the letters decide, and between strings of
\* the same letters the lower-case letter comes first
localeCompare(a, b) ==
    IF compareBy(a, b, "letter") # 0 THEN compareBy(a, b, "letter")
    ELSE compareBy(a, b, "case")

\* new Date(lastModified).getTime(): lastModified is held as the day of the
\* timestamp, getTime gives its milliseconds
getTime(lastModified) == lastModified * 86400000

\* compareValue of the comparator of filteredAndSortedFiles, for a sort key
compareValue(a, b, key) ==
    CASE key = "size" -> a.size - b.size
      [] key = "name" -> localeCompare(a.name, b.name)
      [] key = "date" -> getTime(a.lastModified) - getTime(b.lastModified)
      [] OTHER -> 0

\* a variant of the comparator that leaves the order out
compareFilesAscending(a, b, key, order) == compareValue(a, b, key)

\* the comparator of filteredAndSortedFiles for a key and an order
compareFiles(a, b, key, order) ==
    IF order = "desc" THEN -compareValue(a, b, key) ELSE compareValue(a, b, key)

\* one insertion of a stable sort: x goes behind every element that the
\* comparator does not put after it
RECURSIVE Insert(_, _, _, _)
Insert(x, sorted, key, order) ==
    IF sorted = <<>> THEN <<x>>
    ELSE IF compareFiles(sorted[Len(sorted)], x, key, order) <= 0
         THEN Append(sorted, x)
    ELSE Append(Insert(x, SubSeq(sorted, 1, Len(sorted) - 1), key, order),
                sorted[Len(sorted)])

\* Array.prototype.sort with the comparator: a stable sort
RECURSIVE sort(_, _, _)
sort(s, key, order) ==
    IF s = <<>> THEN <<>>
    ELSE Insert(s[Len(s)], sort(SubSeq(s, 1, Len(s) - 1), key, order), key, order)

\* a variant of getSizeColor with the red class above 1024 * 1024 * 1024
getSizeColorGiB(size) ==
    IF size > 1024 * 1024 * 1024 THEN "text-red-600"
    ELSE IF size > 500 * 1024 * 1024 THEN "text-orange-600"
    ELSE "text-yellow-600"

\* getSizeColor (size in bytes)
getSizeColor(size) ==
    IF size > 1000 * 1024 * 1024 THEN "text-red-600"
    ELSE IF size > 500 * 1024 * 1024 THEN "text-orange-600"
    ELSE "text-yellow-600"

\* getSizeBadgeColor (size in bytes)
getSizeBadgeColor(size) ==
    IF size > 1000 * 1024 * 1024 THEN "bg-red-100 text-red-800"
    ELSE IF size > 500 * 1024 * 1024 THEN "bg-orange-100 text-orange-800"
    ELSE "bg-yellow-100 text-yellow-800"

(***************************************************************************)
(* Values computed at render.                                              *)
(***************************************************************************)
\* a variant of the search test without the lower-casing
matchesSearchCaseSensitive(file) ==
    includes(file.name, searchTerm) \/ includes(file.path, searchTerm)

matchesSearch(file) ==
    \/ includes(toLowerCase(file.name), toLowerCase(searchTerm))
    \/ includes(toLowerCase(file.path), toLowerCase(searchTerm))

matchesFilter(file) == filterType = "all" \/ file.type = filterType

\* TempFileManager: tempFiles.filter(...)
filteredFiles ==
    FilterSeq(files, {f \in Range(files) : matchesSearch(f) /\ matchesFilter(f)})

\* LargeFileAnalyzer: the .filter(...) stage of filteredAndSortedFiles
filteredLargeFiles ==
    FilterSeq(files, {f \in Range(files) : matchesSearch(f)})

\* filteredAndSortedFiles as rendered with a key and an order
sortedLargeFiles(key, order) == sort(filteredLargeFiles, key, order)

filteredAndSortedFiles == sortedLargeFiles(sortBy, sortOrder)

\* the rows of the list, as a set of ids (the order is not used by a handler)
DisplayedIds ==
    IF view = "temp" THEN {f.id : f \in Range(filteredFiles)}
    ELSE {f.id : f \in Range(filteredLargeFiles)}

\* a variant of totalSelectedSize without the .filter: the total of the list
totalSizeOfList == SumSize(files)

\* totalSelectedSize (temp) and selectedSize (large)
totalSelectedSize ==
    SumSize(FilterSeq(files, {f \in Range(files) : f.id \in selectedFiles}))

\* the count of "{formatNumber(selectedFiles.size)} files selected"
selectedCount == Cardinality(selectedFiles)

fileTypes == {f.type : f \in Range(files)}

\* which of the three returns of the component renders
RenderedView ==
    IF loading /\ ~isScanning THEN "loading"
    ELSE IF error # NoError THEN "error"
    ELSE "main"

\* the "... files selected (...)" line: selectedFiles.size > 0 && (...)
SelectionLineShown == RenderedView = "main" /\ selectedFiles # {}

\* what the list area of the main view renders:
\* isScanning ? spinner : filteredFiles.length === 0 ? empty : rows
ListBody ==
    IF isScanning THEN "spinner"
    ELSE IF DisplayedIds = {} THEN "empty"
    ELSE "rows"

\* in the main view, the list rows are rendered only when not scanning
RowsShown == RenderedView = "main" /\ ~isScanning

(***************************************************************************)
(* Requests and events.                                                    *)
(***************************************************************************)
\* a request in flight, with what the async call that awaits it holds.
\* kind: what was requested.  origin: what called the scan ("scan": the mount
\* effect or Refresh; "threshold": the effect of a changed sizeThreshold;
\* "retry": Retry; "cleanup": the cleanup handler).  minSize: the minSizeBytes of a large-file fetch (0 in the
\* temp view); for a cleanup, the minSizeBytes that the scanLargeFiles of the
\* click's closure will compute.  fileIds, response: the locals of the cleanup
\* handler (response is <<>> before the cleanup has resolved).
Fetch(origin, minSize, fileIds, response) ==
    [kind |-> "fetch", origin |-> origin, minSize |-> minSize,
     fileIds |-> fileIds, response |-> response]
Cleanup(minSize, fileIds) ==
    [kind |-> "cleanup", origin |-> "click", minSize |-> minSize,
     fileIds |-> fileIds, response |-> <<>>]

InFlight == BagToSet(net)
Issue(r) == net (+) SetToBag({r})
Settle(r) == net (-) SetToBag({r})

\* the cap on requests in flight: a handler that would send one more is not
\* taken (the code has no such limit; the continuation of a cleanup replaces
\* its own request and is never held back)
CanIssue == BagCardinality(net) < MaxInFlight

\* lastEvent after a network callback: what completed (op), the request it
\* belonged to, and the body delivered (a list, or <<resp>> of a cleanup)
NoReq == Fetch("none", 0, {}, <<>>)
Ev(op, req, list, result) ==
    [op |-> op, req |-> req, list |-> list, result |-> result, fileId |-> 0]
\* lastEvent after a handler of a user event (or the mount effect)
UserEv == Ev("user", NoReq, <<>>, <<>>)
\* lastEvent after a selection handler
SelectEv(op, fileId) ==
    [op |-> op, req |-> NoReq, list |-> <<>>, result |-> <<>>, fileId |-> fileId]

\* minSizeBytes = sizeThreshold * 1024 * 1024
minSizeBytes(threshold) == threshold * 1024 * 1024

Init ==
    /\ view \in {"temp", "large"}
    /\ mounted = FALSE
    /\ files = <<>>
    /\ selectedFiles = {}
    /\ searchTerm = <<>>
    /\ filterType = "all"
    /\ sortBy = "size"
    /\ sortOrder = "desc"
    /\ sizeThreshold = 100
    /\ isScanning = FALSE
    /\ loading = TRUE
    /\ error = NoError
    /\ isCleaningUp = FALSE
    /\ cleanupResult = <<>>
    /\ net = EmptyBag
    /\ lastEvent = UserEv

(***************************************************************************)
(* scanTempFiles / scanLargeFiles.                                         *)
(***************************************************************************)
\* scanTempFiles up to its await: the flags, then the request goes out
\* (others: the requests in flight besides; r: the request sent)
scanTempFilesStart(others, r) ==
    /\ isScanning' = TRUE
    /\ error' = NoError
    /\ net' = others (+) SetToBag({r})

\* scanLargeFiles up to its await
scanLargeFilesStart(others, r) ==
    /\ isScanning' = TRUE
    /\ error' = NoError
    /\ net' = others (+) SetToBag({r})

\* the request a scan called from the component's render sends
ScanRequest(origin) ==
    IF view = "temp" THEN Fetch(origin, 0, {}, <<>>)
    ELSE Fetch(origin, minSizeBytes(sizeThreshold), {}, <<>>)

\* a variant of cleanupSelectedAfterScan without setSelectedFiles(new Set())
cleanupSelectedAfterScanKeepsSelection(r) ==
    IF r.origin = "cleanup"
    THEN selectedFiles' = selectedFiles /\ isCleaningUp' = FALSE
    ELSE UNCHANGED <<selectedFiles, isCleaningUp>>

\* cleanupSelected after `await scanTempFiles()`: line 80 and the finally
cleanupSelectedAfterScan(r) ==
    IF r.origin = "cleanup"
    THEN selectedFiles' = {} /\ isCleaningUp' = FALSE
    ELSE UNCHANGED <<selectedFiles, isCleaningUp>>

\* a variant of deleteSelectedAfterScan that deselects only the ids sent
deleteSelectedAfterScanRemovesSent(r) ==
    IF r.origin = "cleanup"
    THEN selectedFiles' = selectedFiles \ r.fileIds
    ELSE UNCHANGED selectedFiles

\* deleteSelected after `await scanLargeFiles()`: line 83
deleteSelectedAfterScan(r) ==
    IF r.origin = "cleanup"
    THEN selectedFiles' = {}
    ELSE UNCHANGED selectedFiles

\* the mount effect of either component
Mount ==
    /\ ~mounted
    /\ mounted' = TRUE
    /\ IF view = "temp" THEN scanTempFilesStart(net, ScanRequest("scan"))
       ELSE scanLargeFilesStart(net, ScanRequest("scan"))
    /\ lastEvent' = UserEv
    /\ UNCHANGED <<view, files, selectedFiles, searchTerm, filterType, sortBy,
                   sortOrder, sizeThreshold, loading, isCleaningUp, cleanupResult>>

\* the Refresh button (disabled while isScanning) of the main view
Refresh ==
    /\ mounted /\ RenderedView = "main" /\ ~isScanning /\ CanIssue
    /\ IF view = "temp" THEN scanTempFilesStart(net, ScanRequest("scan"))
       ELSE scanLargeFilesStart(net, ScanRequest("scan"))
    /\ lastEvent' = UserEv
    /\ UNCHANGED <<view, mounted, files, selectedFiles, searchTerm, filterType,
                   sortBy, sortOrder, sizeThreshold, loading, isCleaningUp,
                   cleanupResult>>

\* the Retry button of the full-page error state
Retry ==
    /\ mounted /\ RenderedView = "error" /\ CanIssue
    /\ IF view = "temp" THEN scanTempFilesStart(net, ScanRequest("retry"))
       ELSE scanLargeFilesStart(net, ScanRequest("retry"))
    /\ lastEvent' = UserEv
    /\ UNCHANGED <<view, mounted, files, selectedFiles, searchTerm, filterType,
                   sortBy, sortOrder, sizeThreshold, loading, isCleaningUp,
                   cleanupResult>>

\* a variant of scanTempFilesResolved without setTempFiles(response.data.files)
scanTempFilesResolvedDropsList(r, l) ==
    /\ view = "temp" /\ r \in InFlight /\ r.kind = "fetch"
    /\ files' = files
    /\ loading' = FALSE
    /\ isScanning' = FALSE
    /\ cleanupSelectedAfterScan(r)
    /\ net' = Settle(r)
    /\ lastEvent' = Ev("fetchOk", r, l, <<>>)
    /\ UNCHANGED <<view, mounted, searchTerm, filterType, sortBy, sortOrder,
                   sizeThreshold, error, cleanupResult>>

\* scanTempFiles: the request resolves with the list l
scanTempFilesResolved(r, l) ==
    /\ view = "temp" /\ r \in InFlight /\ r.kind = "fetch"
    /\ files' = l
    /\ loading' = FALSE
    /\ isScanning' = FALSE
    /\ cleanupSelectedAfterScan(r)
    /\ net' = Settle(r)
    /\ lastEvent' = Ev("fetchOk", r, l, <<>>)
    /\ UNCHANGED <<view, mounted, searchTerm, filterType, sortBy, sortOrder,
                   sizeThreshold, error, cleanupResult>>

\* a variant of scanTempFilesRejected that does not catch: the rejection of the
\* cleanup handler's scan reaches the catch of cleanupSelected
scanTempFilesRejectedPropagates(r) ==
    /\ view = "temp" /\ r \in InFlight /\ r.kind = "fetch"
    /\ error' = IF r.origin = "cleanup" THEN TempCleanupError ELSE TempFetchError
    /\ loading' = FALSE
    /\ isScanning' = FALSE
    /\ isCleaningUp' = IF r.origin = "cleanup" THEN FALSE ELSE isCleaningUp
    /\ net' = Settle(r)
    /\ lastEvent' = Ev("fetchFail", r, <<>>, <<>>)
    /\ UNCHANGED <<view, mounted, files, selectedFiles, searchTerm, filterType,
                   sortBy, sortOrder, sizeThreshold, cleanupResult>>

\* scanTempFiles: the request rejects
scanTempFilesRejected(r) ==
    /\ view = "temp" /\ r \in InFlight /\ r.kind = "fetch"
    /\ error' = TempFetchError
    /\ loading' = FALSE
    /\ isScanning' = FALSE
    /\ cleanupSelectedAfterScan(r)
    /\ net' = Settle(r)
    /\ lastEvent' = Ev("fetchFail", r, <<>>, <<>>)
    /\ UNCHANGED <<view, mounted, files, searchTerm, filterType, sortBy,
                   sortOrder, sizeThreshold, cleanupResult>>

\* a variant of scanLargeFilesResolved that drops the response of a request
\* made for another threshold than the current one
scanLargeFilesResolvedIgnoresStale(r, l) ==
    /\ view = "large" /\ r \in InFlight /\ r.kind = "fetch"
    /\ files' = IF r.minSize = minSizeBytes(sizeThreshold) THEN l ELSE files
    /\ loading' = FALSE
    /\ isScanning' = FALSE
    /\ deleteSelectedAfterScan(r)
    /\ net' = Settle(r)
    /\ lastEvent' = Ev("fetchOk", r, l, <<>>)
    /\ UNCHANGED <<view, mounted, searchTerm, filterType, sortBy, sortOrder,
                   sizeThreshold, error, isCleaningUp, cleanupResult>>

\* scanLargeFiles: the request resolves with the list l
scanLargeFilesResolved(r, l) ==
    /\ view = "large" /\ r \in InFlight /\ r.kind = "fetch"
    /\ files' = l
    /\ loading' = FALSE
    /\ isScanning' = FALSE
    /\ deleteSelectedAfterScan(r)
    /\ net' = Settle(r)
    /\ lastEvent' = Ev("fetchOk", r, l, <<>>)
    /\ UNCHANGED <<view, mounted, searchTerm, filterType, sortBy, sortOrder,
                   sizeThreshold, error, isCleaningUp, cleanupResult>>

\* a variant of scanLargeFilesRejected without the finally: isScanning stays
scanLargeFilesRejectedKeepsScanning(r) ==
    /\ view = "large" /\ r \in InFlight /\ r.kind = "fetch"
    /\ error' = LargeFetchError
    /\ loading' = FALSE
    /\ deleteSelectedAfterScan(r)
    /\ net' = Settle(r)
    /\ lastEvent' = Ev("fetchFail", r, <<>>, <<>>)
    /\ UNCHANGED <<view, mounted, files, searchTerm, filterType, sortBy,
                   sortOrder, sizeThreshold, isScanning, isCleaningUp,
                   cleanupResult>>

\* a variant of scanLargeFilesRejected that also empties the list
scanLargeFilesRejectedClearsList(r) ==
    /\ view = "large" /\ r \in InFlight /\ r.kind = "fetch"
    /\ files' = <<>>
    /\ error' = LargeFetchError
    /\ loading' = FALSE
    /\ isScanning' = FALSE
    /\ deleteSelectedAfterScan(r)
    /\ net' = Settle(r)
    /\ lastEvent' = Ev("fetchFail", r, <<>>, <<>>)
    /\ UNCHANGED <<view, mounted, searchTerm, filterType, sortBy, sortOrder,
                   sizeThreshold, isCleaningUp, cleanupResult>>

\* scanLargeFiles: the request rejects
scanLargeFilesRejected(r) ==
    /\ view = "large" /\ r \in InFlight /\ r.kind = "fetch"
    /\ error' = LargeFetchError
    /\ loading' = FALSE
    /\ isScanning' = FALSE
    /\ deleteSelectedAfterScan(r)
    /\ net' = Settle(r)
    /\ lastEvent' = Ev("fetchFail", r, <<>>, <<>>)
    /\ UNCHANGED <<view, mounted, files, searchTerm, filterType, sortBy,
                   sortOrder, sizeThreshold, isCleaningUp, cleanupResult>>

(***************************************************************************)
(* Cleanup: cleanupSelected (temp) and deleteSelected (large).             *)
(***************************************************************************)
\* a variant of cleanupSelected whose button is not disabled while isCleaningUp
cleanupSelectedNotDisabled ==
    /\ view = "temp" /\ mounted /\ RenderedView = "main"
    /\ selectedFiles # {} /\ CanIssue
    /\ isCleaningUp' = TRUE
    /\ error' = NoError
    /\ net' = Issue(Cleanup(0, selectedFiles))
    /\ lastEvent' = UserEv
    /\ UNCHANGED <<view, mounted, files, selectedFiles, searchTerm, filterType,
                   sortBy, sortOrder, sizeThreshold, isScanning, loading,
                   cleanupResult>>

\* cleanupSelected up to its first await (button shown when the selection is
\* not empty, disabled while isCleaningUp)
cleanupSelected ==
    /\ view = "temp" /\ mounted /\ RenderedView = "main"
    /\ selectedFiles # {} /\ ~isCleaningUp /\ CanIssue
    /\ isCleaningUp' = TRUE
    /\ error' = NoError
    /\ net' = Issue(Cleanup(0, selectedFiles))
    /\ lastEvent' = UserEv
    /\ UNCHANGED <<view, mounted, files, selectedFiles, searchTerm, filterType,
                   sortBy, sortOrder, sizeThreshold, isScanning, loading,
                   cleanupResult>>

\* cleanupSelected: the cleanup request resolves with body resp; the banner is
\* set and scanTempFiles is called
cleanupSelectedResolved(r, resp) ==
    /\ view = "temp" /\ r \in InFlight /\ r.kind = "cleanup"
    /\ cleanupResult' = <<[filesRemoved |-> resp.filesRemoved,
                           spaceFreed |-> resp.spaceFreed]>>
    /\ scanTempFilesStart(Settle(r), Fetch("cleanup", 0, r.fileIds, <<resp>>))
    /\ lastEvent' = Ev("cleanupOk", r, <<>>, <<resp>>)
    /\ UNCHANGED <<view, mounted, files, selectedFiles, searchTerm, filterType,
                   sortBy, sortOrder, sizeThreshold, loading, isCleaningUp>>

\* a variant of cleanupSelectedRejected that also clears the selection, as the
\* success path does
cleanupSelectedRejectedClearsSelection(r) ==
    /\ view = "temp" /\ r \in InFlight /\ r.kind = "cleanup"
    /\ error' = TempCleanupError
    /\ isCleaningUp' = FALSE
    /\ selectedFiles' = {}
    /\ net' = Settle(r)
    /\ lastEvent' = Ev("cleanupFail", r, <<>>, <<>>)
    /\ UNCHANGED <<view, mounted, files, searchTerm, filterType, sortBy,
                   sortOrder, sizeThreshold, isScanning, loading, cleanupResult>>

\* cleanupSelected: the cleanup request rejects (catch, finally)
cleanupSelectedRejected(r) ==
    /\ view = "temp" /\ r \in InFlight /\ r.kind = "cleanup"
    /\ error' = TempCleanupError
    /\ isCleaningUp' = FALSE
    /\ net' = Settle(r)
    /\ lastEvent' = Ev("cleanupFail", r, <<>>, <<>>)
    /\ UNCHANGED <<view, mounted, files, selectedFiles, searchTerm, filterType,
                   sortBy, sortOrder, sizeThreshold, isScanning, loading,
                   cleanupResult>>

\* a variant of deleteSelected that does not await the cleanup before it calls
\* scanLargeFiles: both requests go out at the click
deleteSelectedRefetchesAtOnce ==
    /\ view = "large" /\ mounted /\ RenderedView = "main"
    /\ selectedFiles # {} /\ BagCardinality(net) + 1 < MaxInFlight
    /\ scanLargeFilesStart(
           Issue(Cleanup(minSizeBytes(sizeThreshold), selectedFiles)),
           Fetch("cleanup", minSizeBytes(sizeThreshold), selectedFiles, <<>>))
    /\ lastEvent' = UserEv
    /\ UNCHANGED <<view, mounted, files, selectedFiles, searchTerm, filterType,
                   sortBy, sortOrder, sizeThreshold, loading, isCleaningUp,
                   cleanupResult>>

\* deleteSelected up to its first await (button shown when the selection is
\* not empty)
deleteSelected ==
    /\ view = "large" /\ mounted /\ RenderedView = "main"
    /\ selectedFiles # {} /\ CanIssue
    /\ net' = Issue(Cleanup(minSizeBytes(sizeThreshold), selectedFiles))
    /\ lastEvent' = UserEv
    /\ UNCHANGED <<view, mounted, files, selectedFiles, searchTerm, filterType,
                   sortBy, sortOrder, sizeThreshold, isScanning, loading, error,
                   isCleaningUp, cleanupResult>>

\* deleteSelected: the cleanup request resolves; scanLargeFiles of the click's
\* closure is called
deleteSelectedResolved(r, resp) ==
    /\ view = "large" /\ r \in InFlight /\ r.kind = "cleanup"
    /\ scanLargeFilesStart(Settle(r), Fetch("cleanup", r.minSize, r.fileIds, <<>>))
    /\ lastEvent' = Ev("cleanupOk", r, <<>>, <<resp>>)
    /\ UNCHANGED <<view, mounted, files, selectedFiles, searchTerm, filterType,
                   sortBy, sortOrder, sizeThreshold, loading, isCleaningUp,
                   cleanupResult>>

\* deleteSelected: the cleanup request rejects (catch)
deleteSelectedRejected(r) ==
    /\ view = "large" /\ r \in InFlight /\ r.kind = "cleanup"
    /\ error' = LargeCleanupError
    /\ net' = Settle(r)
    /\ lastEvent' = Ev("cleanupFail", r, <<>>, <<>>)
    /\ UNCHANGED <<view, mounted, files, selectedFiles, searchTerm, filterType,
                   sortBy, sortOrder, sizeThreshold, isScanning, loading,
                   isCleaningUp, cleanupResult>>

(***************************************************************************)
(* Selection.                                                              *)
(***************************************************************************)
\* a variant of newSelection that only ever adds
newSelectionAddOnly(selection, fileId) == selection \cup {fileId}

\* toggleFileSelection: the new Set built from selectedFiles
newSelection(selection, fileId) ==
    IF fileId \in selection THEN selection \ {fileId}
    ELSE selection \cup {fileId}

\* a click on the row (or its checkbox) of fileId
toggleFileSelection(fileId) ==
    /\ mounted /\ RowsShown /\ fileId \in DisplayedIds
    /\ selectedFiles' = newSelection(selectedFiles, fileId)
    /\ lastEvent' = SelectEv("toggle", fileId)
    /\ UNCHANGED <<view, mounted, files, searchTerm, filterType, sortBy,
                   sortOrder, sizeThreshold, isScanning, loading, error,
                   isCleaningUp, cleanupResult, net>>

\* a variant of selectAll over tempFiles instead of filteredFiles
selectAllUnfiltered ==
    /\ view = "temp" /\ mounted /\ RenderedView = "main"
    /\ selectedFiles' = {files[i].id : i \in DOMAIN files}
    /\ lastEvent' = SelectEv("selectAll", 0)
    /\ UNCHANGED <<view, mounted, files, searchTerm, filterType, sortBy,
                   sortOrder, sizeThreshold, isScanning, loading, error,
                   isCleaningUp, cleanupResult, net>>

\* Select All (temp view)
selectAll ==
    /\ view = "temp" /\ mounted /\ RenderedView = "main"
    /\ selectedFiles' = {filteredFiles[i].id : i \in DOMAIN filteredFiles}
    /\ lastEvent' = SelectEv("selectAll", 0)
    /\ UNCHANGED <<view, mounted, files, searchTerm, filterType, sortBy,
                   sortOrder, sizeThreshold, isScanning, loading, error,
                   isCleaningUp, cleanupResult, net>>

\* Deselect All (temp view)
deselectAll ==
    /\ view = "temp" /\ mounted /\ RenderedView = "main"
    /\ selectedFiles' = {}
    /\ lastEvent' = SelectEv("deselectAll", 0)
    /\ UNCHANGED <<view, mounted, files, searchTerm, filterType, sortBy,
                   sortOrder, sizeThreshold, isScanning, loading, error,
                   isCleaningUp, cleanupResult, net>>

(***************************************************************************)
(* Filter, sort and threshold controls of the main view.                   *)
(***************************************************************************)
\* a variant of setSearchTerm that drops the selected ids the new term hides
setSearchTermPrunesSelection(t) ==
    /\ mounted /\ RenderedView = "main" /\ t # searchTerm
    /\ searchTerm' = t
    /\ selectedFiles' =
          {x \in selectedFiles :
             \E f \in Range(files) :
                /\ f.id = x
                /\ \/ includes(toLowerCase(f.name), toLowerCase(t))
                   \/ includes(toLowerCase(f.path), toLowerCase(t))}
    /\ lastEvent' = UserEv
    /\ UNCHANGED <<view, mounted, files, filterType, sortBy, sortOrder,
                   sizeThreshold, isScanning, loading, error, isCleaningUp,
                   cleanupResult, net>>

\* the search box
setSearchTerm(t) ==
    /\ mounted /\ RenderedView = "main" /\ t # searchTerm
    /\ searchTerm' = t
    /\ lastEvent' = UserEv
    /\ UNCHANGED <<view, mounted, files, selectedFiles, filterType, sortBy,
                   sortOrder, sizeThreshold, isScanning, loading, error,
                   isCleaningUp, cleanupResult, net>>

\* the options are "all" and the types of the files of the list
setFilterType(y) ==
    /\ view = "temp" /\ mounted /\ RenderedView = "main"
    /\ y \in {"all"} \cup fileTypes /\ y # filterType
    /\ filterType' = y
    /\ lastEvent' = UserEv
    /\ UNCHANGED <<view, mounted, files, selectedFiles, searchTerm, sortBy,
                   sortOrder, sizeThreshold, isScanning, loading, error,
                   isCleaningUp, cleanupResult, net>>

setSortBy(k) ==
    /\ view = "large" /\ mounted /\ RenderedView = "main" /\ k # sortBy
    /\ sortBy' = k
    /\ lastEvent' = UserEv
    /\ UNCHANGED <<view, mounted, files, selectedFiles, searchTerm, filterType,
                   sortOrder, sizeThreshold, isScanning, loading, error,
                   isCleaningUp, cleanupResult, net>>

setSortOrder(o) ==
    /\ view = "large" /\ mounted /\ RenderedView = "main" /\ o # sortOrder
    /\ sortOrder' = o
    /\ lastEvent' = UserEv
    /\ UNCHANGED <<view, mounted, files, selectedFiles, searchTerm, filterType,
                   sortBy, sizeThreshold, isScanning, loading, error,
                   isCleaningUp, cleanupResult, net>>

\* the threshold input, with the effect on [sizeThreshold] that follows the
\* render: scanLargeFiles of the new render
setSizeThreshold(t) ==
    /\ view = "large" /\ mounted /\ RenderedView = "main"
    /\ t # sizeThreshold /\ CanIssue
    /\ sizeThreshold' = t
    /\ scanLargeFilesStart(net, Fetch("threshold", minSizeBytes(t), {}, <<>>))
    /\ lastEvent' = UserEv
    /\ UNCHANGED <<view, mounted, files, selectedFiles, searchTerm, filterType,
                   sortBy, sortOrder, loading, isCleaningUp, cleanupResult>>

Next ==
    \/ Mount
    \/ Refresh
    \/ Retry
    \/ \E r \in InFlight, l \in Responses : scanTempFilesResolved(r, l)
    \/ \E r \in InFlight : scanTempFilesRejected(r)
    \/ \E r \in InFlight, l \in Responses : scanLargeFilesResolved(r, l)
    \/ \E r \in InFlight : scanLargeFilesRejected(r)
    \/ cleanupSelected
    \/ \E r \in InFlight, resp \in CleanupResponses : cleanupSelectedResolved(r, resp)
    \/ \E r \in InFlight : cleanupSelectedRejected(r)
    \/ deleteSelected
    \/ \E r \in InFlight, resp \in CleanupResponses : deleteSelectedResolved(r, resp)
    \/ \E r \in InFlight : deleteSelectedRejected(r)
    \/ \E fileId \in Ids : toggleFileSelection(fileId)
    \/ selectAll
    \/ deselectAll
    \/ \E t \in SearchTerms : setSearchTerm(t)
    \/ \E y \in FilterTypes : setFilterType(y)
    \/ \E k \in LoadedSortKeys : setSortBy(k)
    \/ \E o \in SortOrders : setSortOrder(o)
    \/ \E t \in Thresholds : setSizeThreshold(t)

Spec == Init /\ [][Next]_vars

(***************************************************************************)
(* The specification with fairness: the mount effect runs, and a request   *)
(* in flight settles (the HTTP client rejects it at its timeout at the     *)
(* latest).  Nothing is asked of the user.                                 *)
(***************************************************************************)
\* a step in which a request in flight resolves or rejects
NetworkStep ==
    \/ \E r \in InFlight, l \in Responses : scanTempFilesResolved(r, l)
    \/ \E r \in InFlight : scanTempFilesRejected(r)
    \/ \E r \in InFlight, l \in Responses : scanLargeFilesResolved(r, l)
    \/ \E r \in InFlight : scanLargeFilesRejected(r)
    \/ \E r \in InFlight, resp \in CleanupResponses : cleanupSelectedResolved(r, resp)
    \/ \E r \in InFlight : cleanupSelectedRejected(r)
    \/ \E r \in InFlight, resp \in CleanupResponses : deleteSelectedResolved(r, resp)
    \/ \E r \in InFlight : deleteSelectedRejected(r)

\* what the user can do to the requests and the selection (the search, type
\* and sort inputs, which write no flag and send no request, are left out)
UserStep ==
    \/ Refresh
    \/ Retry
    \/ cleanupSelected
    \/ deleteSelected
    \/ \E fileId \in Ids : toggleFileSelection(fileId)
    \/ selectAll
    \/ deselectAll
    \/ \E t \in Thresholds : setSizeThreshold(t)

LiveNext == Mount \/ UserStep \/ NetworkStep

LiveSpec ==
    Init /\ [][LiveNext]_vars /\ WF_vars(Mount) /\ WF_vars(NetworkStep)

(***************************************************************************)
(* The render specification: a loaded view over every list of at most      *)
(* MaxListLen files, under the inputs of the filter and the sort.          *)
(***************************************************************************)
RenderLists == UNION {[1..n -> RenderCatalog] : n \in 0..MaxListLen}

RenderInit ==
    /\ view \in {"temp", "large"}
    /\ mounted = TRUE
    /\ files \in RenderLists
    /\ selectedFiles = {}
    /\ searchTerm = <<>>
    /\ filterType = "all"
    /\ sortBy = "size"
    /\ sortOrder = "desc"
    /\ sizeThreshold = 100
    /\ isScanning = FALSE
    /\ loading = FALSE
    /\ error = NoError
    /\ isCleaningUp = FALSE
    /\ cleanupResult = <<>>
    /\ net = EmptyBag
    /\ lastEvent = UserEv

RenderNext ==
    \/ \E t \in RenderTerms : setSearchTerm(t)
    \/ \E y \in FilterTypes : setFilterType(y)
    \/ \E k \in SortKeys : setSortBy(k)
    \/ \E o \in SortOrders : setSortOrder(o)

RenderSpec == RenderInit /\ [][RenderNext]_vars

(***************************************************************************)
(* The colour specification: LargeFileAnalyzer loaded with one file whose  *)
(* size is in bytes, under the inputs of the search and the sort.          *)
(***************************************************************************)
\* the sizes, in bytes: none, the two of the catalog's files in bytes, and
\* those around the two thresholds
SizeSamples ==
    {0, 600 * 1000000, 2000 * 1000000}
        \cup {500 * 1024 * 1024 + d : d \in (-MaxSizeDelta)..MaxSizeDelta}
        \cup {1000 * 1024 * 1024 + d : d \in (-MaxSizeDelta)..MaxSizeDelta}

ColorInit ==
    /\ view = "large"
    /\ mounted = TRUE
    /\ files \in {<<[File1 EXCEPT !.size = s]>> : s \in SizeSamples}
    /\ selectedFiles = {}
    /\ searchTerm = <<>>
    /\ filterType = "all"
    /\ sortBy = "size"
    /\ sortOrder = "desc"
    /\ sizeThreshold = 100
    /\ isScanning = FALSE
    /\ loading = FALSE
    /\ error = NoError
    /\ isCleaningUp = FALSE
    /\ cleanupResult = <<>>
    /\ net = EmptyBag
    /\ lastEvent = UserEv

ColorNext ==
    \/ \E t \in RenderTerms : setSearchTerm(t)
    \/ \E k \in SortKeys : setSortBy(k)
    \/ \E o \in SortOrders : setSortOrder(o)

ColorSpec == ColorInit /\ [][ColorNext]_vars

\* the two class names of the size of each row
rowSizeClasses ==
    [i \in DOMAIN filteredAndSortedFiles |->
        [color |-> getSizeColor(filteredAndSortedFiles[i].size),
         badge |-> getSizeBadgeColor(filteredAndSortedFiles[i].size)]]

(***************************************************************************)
(* Helpers of the properties.                                              *)
(***************************************************************************)
FetchErrors == {TempFetchError, LargeFetchError}
CleanupErrors == {TempCleanupError, LargeCleanupError}

\* the requests of the bag b that are fetches, as a bag
FetchesOf(b) == [r \in {x \in DOMAIN b : x.kind = "fetch"} |-> b[r]]

\* how many requests of the bag b are fetches called from origin
CountOrigin(b, origin) ==
    BagCardinality([r \in {x \in DOMAIN b : x.kind = "fetch" /\ x.origin = origin}
                       |-> b[r]])

\* how many requests of the bag b are cleanups
CountCleanups(b) ==
    BagCardinality([r \in {x \in DOMAIN b : x.kind = "cleanup"} |-> b[r]])

\* a scan called from the cleanup handler has just settled: the handler is done
CleanupHandlerDone ==
    /\ lastEvent.op \in {"fetchOk", "fetchFail"}
    /\ lastEvent.req.origin = "cleanup"

\* the sum of size over the positions of the list whose id is selected
RECURSIVE SumAt(_)
SumAt(positions) ==
    IF positions = {} THEN 0
    ELSE LET i == CHOOSE j \in positions : TRUE
         IN  files[i].size + SumAt(positions \ {i})

(***************************************************************************)
(* Properties.                                                             *)
(***************************************************************************)
\* C1: in both views, the handling of a failed cleanup request leaves the file
\* list and the selection set as they were, issues no request (the requests in
\* flight are the former ones less the failed cleanup) and changes nothing but
\* error and, in the temp view, isCleaningUp.
CleanupFailureKeepsState ==
    [][lastEvent'.op = "cleanupFail" =>
         /\ files' = files
         /\ selectedFiles' = selectedFiles
         /\ lastEvent'.req \in InFlight
         /\ net' = net (-) SetToBag({lastEvent'.req})
         /\ error' \in CleanupErrors
         /\ UNCHANGED <<isScanning, loading, cleanupResult, searchTerm,
                        filterType, sortBy, sortOrder, sizeThreshold>>
         /\ (view = "large" => isCleaningUp' = isCleaningUp)]_vars

\* C1 witness: a cleanup has just failed with files listed and selected
CleanupFailureWitness ==
    /\ lastEvent.op = "cleanupFail"
    /\ files # <<>>
    /\ selectedFiles # {}
    /\ error \in CleanupErrors

\* C2: after a failed cleanup the main view (list, selection and cleanup
\* controls) is rendered, with the message; the full-page error state is
\* rendered only for a fetch failure.
CleanupFailureNonBlocking ==
    /\ lastEvent.op = "cleanupFail" => RenderedView = "main"
    /\ RenderedView = "error" => error \in FetchErrors

\* C3 as stated: when the temp view's cleanup handler is done after a response
\* with filesRemoved = n and spaceFreed = b, the selection is empty and the
\* banner is shown (main view) reporting n and b.
CleanupSuccessShowsBanner ==
    (view = "temp" /\ CleanupHandlerDone) =>
        /\ selectedFiles = {}
        /\ cleanupResult = <<[filesRemoved |-> lastEvent.req.response[1].filesRemoved,
                              spaceFreed |-> lastEvent.req.response[1].spaceFreed]>>
        /\ RenderedView = "main"

\* C3 amended: in the temp view, once the cleanup has resolved with n and b the
\* banner state holds exactly n and b and the main view shows it while the
\* re-fetch runs; when the handler is done the selection is empty, isCleaningUp
\* is false and cleanupResult still holds n and b; the banner is on screen then
\* unless an error is set (the re-fetch or another request failed), in which
\* case the full-page error state is rendered.
CleanupSuccessSetsBanner ==
    /\ (view = "temp" /\ lastEvent.op = "cleanupOk") =>
          /\ cleanupResult = <<[filesRemoved |-> lastEvent.result[1].filesRemoved,
                                spaceFreed |-> lastEvent.result[1].spaceFreed]>>
          /\ RenderedView = "main"
    /\ (view = "temp" /\ CleanupHandlerDone) =>
          /\ selectedFiles = {}
          /\ ~isCleaningUp
          /\ cleanupResult = <<[filesRemoved |-> lastEvent.req.response[1].filesRemoved,
                                spaceFreed |-> lastEvent.req.response[1].spaceFreed]>>
          /\ RenderedView = (IF error = NoError THEN "main" ELSE "error")

\* C3 witness: the handler is done after a successful re-fetch, banner on screen
CleanupSuccessWitness ==
    /\ view = "temp"
    /\ CleanupHandlerDone
    /\ lastEvent.op = "fetchOk"
    /\ cleanupResult = <<[filesRemoved |-> 1, spaceFreed |-> 2000]>>
    /\ selectedFiles = {}
    /\ RenderedView = "main"

\* C4: in both views a scan called by the cleanup handler goes out only in the
\* step that takes a successfully resolved cleanup request out of flight, so
\* the two are never in flight together; a failed cleanup sends no fetch.
RefetchAfterCleanupResolves ==
    [][/\ CountOrigin(net', "cleanup") > CountOrigin(net, "cleanup") =>
            /\ lastEvent'.op = "cleanupOk"
            /\ lastEvent'.req \in InFlight
            /\ CountOrigin(net', "cleanup") = CountOrigin(net, "cleanup") + 1
            /\ CountCleanups(net') = CountCleanups(net) - 1
       /\ lastEvent'.op = "cleanupFail" => FetchesOf(net') = FetchesOf(net)]_vars

\* C4 witness: a cleanup has resolved and its re-fetch is in flight
RefetchWitness ==
    /\ lastEvent.op = "cleanupOk"
    /\ CountOrigin(net, "cleanup") = 1
    /\ CountCleanups(net) = 0

\* C5 as stated: a rejected fetch gives the full-page error state; when the
\* fetch that Retry sent resolves, the view is Ready with the returned list.
RetryReachesReady ==
    /\ lastEvent.op = "fetchFail" =>
          error \in FetchErrors /\ RenderedView = "error"
    /\ (lastEvent.op = "fetchOk" /\ lastEvent.req.origin = "retry") =>
          /\ error = NoError
          /\ ~loading /\ ~isScanning
          /\ files = lastEvent.list

\* C5 amended: a rejected fetch gives the full-page error state; when the fetch
\* that Retry sent resolves, loading and isScanning are false and the list is
\* the returned one, and error is what it was just before: null, so the view is
\* Ready, unless another request failed after Retry was invoked.
RetrySuccessKeepsError ==
    /\ [](lastEvent.op = "fetchFail" =>
            error \in FetchErrors /\ RenderedView = "error")
    /\ [][(lastEvent'.op = "fetchOk" /\ lastEvent'.req.origin = "retry") =>
            /\ ~loading' /\ ~isScanning'
            /\ files' = lastEvent'.list
            /\ error' = error
            /\ RenderedView' = (IF error = NoError THEN "main" ELSE "error")]_vars

\* C5 witness: the fetch of a Retry has resolved with a list and the view is Ready
RetryWitness ==
    /\ lastEvent.op = "fetchOk"
    /\ lastEvent.req.origin = "retry"
    /\ files # <<>>
    /\ error = NoError
    /\ RenderedView = "main"

\* C6: once a fetch failure has set error, no event but the Retry action
\* makes error null again.
ErrorStaysUntilRetry ==
    [][(error \in FetchErrors /\ error' = NoError) =>
          CountOrigin(net', "retry") > CountOrigin(net, "retry")]_vars

\* C7: a change of the search term, the type filter, the sort key or the sort
\* direction leaves the selection set unchanged.
FilterLeavesSelection ==
    [][(\/ searchTerm' # searchTerm
        \/ filterType' # filterType
        \/ sortBy' # sortBy
        \/ sortOrder' # sortOrder) => selectedFiles' = selectedFiles]_vars

\* C7 witness: a file of the list is selected and does not pass the filter
\* that was set last
FilterWitness ==
    /\ lastEvent = UserEv
    /\ searchTerm # <<>>
    /\ \E i \in DOMAIN files :
          files[i].id \in selectedFiles /\ files[i].id \notin DisplayedIds

\* C8: in the temp view Select All makes the selection exactly the ids of the
\* files of the list that pass the search and the type filter at that moment,
\* whatever was selected before; Deselect All makes it empty.
SelectAllIsFiltered ==
    [][/\ selectAll =>
            selectedFiles' =
              {files[i].id : i \in
                 {j \in DOMAIN files :
                    /\ \/ includes(toLowerCase(files[j].name), toLowerCase(searchTerm))
                       \/ includes(toLowerCase(files[j].path), toLowerCase(searchTerm))
                    /\ (filterType = "all" \/ files[j].type = filterType)}}
       /\ deselectAll => selectedFiles' = {}]_vars

\* C8 witness: Select All has run under a filter that excludes a file of the list
SelectAllWitness ==
    /\ lastEvent.op = "selectAll"
    /\ selectedFiles # {}
    /\ \E i \in DOMAIN files : files[i].id \notin selectedFiles

\* C9: a toggle of x changes the membership of x and of no other id, and a
\* second toggle of x gives the selection set back.
ToggleRoundTrip ==
    [][lastEvent'.op = "toggle" =>
         LET x == lastEvent'.fileId
         IN  /\ x \in selectedFiles' <=> x \notin selectedFiles
             /\ \A y \in Ids \ {x} : y \in selectedFiles' <=> y \in selectedFiles
             /\ newSelection(selectedFiles', x) = selectedFiles
             /\ newSelection(newSelection(selectedFiles, x), x) = selectedFiles]_vars

\* C9 witness: a toggle has removed an id while another stays selected
ToggleWitness ==
    /\ lastEvent.op = "toggle"
    /\ lastEvent.fileId \notin selectedFiles
    /\ selectedFiles # {}

\* C10: the selected-bytes total is the sum of size over the files of the list
\* whose id is selected; a selected id that is not in the list adds nothing.
SelectedBytesIsSum ==
    totalSelectedSize = SumAt({i \in DOMAIN files : files[i].id \in selectedFiles})

\* C10 witness: one selected id is in the list, another is not
SelectedBytesWitness ==
    /\ \E x \in selectedFiles : \A i \in DOMAIN files : files[i].id # x
    /\ \E i \in DOMAIN files : files[i].id \in selectedFiles
    /\ totalSelectedSize = 2000

(***************************************************************************)
(* C11: the selected count.                                                *)
(***************************************************************************)
\* C11: the selected count that the view reports is the number of files of
\* the current list whose id is in the selection set, also after a refresh
\* returned a list without a selected id.
SelectedCountIsOfList ==
    SelectionLineShown =>
        selectedCount = Cardinality({i \in DOMAIN files : files[i].id \in selectedFiles})

(***************************************************************************)
(* C12, C13: the filter and the sort (under RenderSpec).                   *)
(***************************************************************************)
\* the list before the sort, of either view
FilteredList == IF view = "temp" THEN filteredFiles ELSE filteredLargeFiles

\* C12: the filtered list is exactly the elements of the list, in the list's
\* order, whose lower-cased name or path contains the lower-cased term and (in
\* TempFileManager) whose type is the chosen one or the choice is "all"; the
\* empty term accepts every element, and with the empty term and "all" the
\* filtered list is the list.
FilterIsExact ==
    LET t == toLowerCase(searchTerm)
        Contains(s) ==
            \E i \in 0..Len(s) :
                /\ i + Len(t) <= Len(s)
                /\ \A k \in 1..Len(t) : toLowerCase(s)[i + k] = t[k]
        Accepted(f) ==
            /\ Contains(f.name) \/ Contains(f.path)
            /\ view = "temp" => (filterType = "all" \/ f.type = filterType)
    IN  /\ FilteredList = SelectSeq(files, Accepted)
        /\ searchTerm = <<>> => \A i \in DOMAIN files : matchesSearch(files[i])
        /\ (searchTerm = <<>> /\ (view = "temp" => filterType = "all"))
               => FilteredList = files

\* C12 witness: a term that matches one file only in its path and only by the
\* lower-casing of both sides, in a list with a file that it does not match
FilterExactWitness ==
    /\ view = "temp" /\ filterType = "tmp"
    /\ searchTerm = <<"t", "B">>
    /\ files = <<File3, File2, File1>>
    /\ FilteredList = <<File2>>

\* the reverse of a sequence
Reverse(s) == [i \in DOMAIN s |-> s[Len(s) + 1 - i]]

\* the value of the sort key of a file
SortKeyOf(f) == IF sortBy = "size" THEN f.size ELSE f.lastModified

\* the filtered list has pairwise distinct values of the sort key
DistinctSortKeys ==
    \A i, j \in DOMAIN filteredLargeFiles :
        i # j => SortKeyOf(filteredLargeFiles[i]) # SortKeyOf(filteredLargeFiles[j])

\* C13: in LargeFileAnalyzer, for a list with pairwise distinct values of the
\* sort key (size or date), the descending display is the exact reverse of the
\* ascending one, and both are permutations of the filtered list ordered by
\* that key.
DescIsReverseOfAsc ==
    (view = "large" /\ sortBy \in {"size", "date"} /\ DistinctSortKeys) =>
        LET asc == sortedLargeFiles(sortBy, "asc")
            desc == sortedLargeFiles(sortBy, "desc")
        IN  /\ desc = Reverse(asc)
            /\ filteredAndSortedFiles = IF sortOrder = "asc" THEN asc ELSE desc
            /\ Len(asc) = Len(filteredLargeFiles)
            /\ Range(asc) = Range(filteredLargeFiles)
            /\ Len(desc) = Len(filteredLargeFiles)
            /\ Range(desc) = Range(filteredLargeFiles)
            /\ \A i, j \in DOMAIN asc :
                   i < j => SortKeyOf(asc[i]) < SortKeyOf(asc[j])
            /\ \A i, j \in DOMAIN desc :
                   i < j => SortKeyOf(desc[i]) > SortKeyOf(desc[j])

\* C13 witness: three files of distinct dates, listed in neither order, shown
\* by date descending
SortWitness ==
    /\ view = "large" /\ sortBy = "date" /\ sortOrder = "desc"
    /\ files = <<File1, File3, File2>>
    /\ filteredAndSortedFiles = <<File3, File1, File2>>

(***************************************************************************)
(* C14..C20 (under Spec).                                                  *)
(***************************************************************************)
\* C14: in TempFileManager, cleanupResult becomes non-null only by a cleanup
\* response that succeeded, and the next fetch cycle discards it: when a
\* refresh that was started after the cleanup handler had finished (the only
\* request in flight, with isScanning set and isCleaningUp clear) completes,
\* cleanupResult is null again.
BannerDiscardedByNextFetch ==
    [][/\ (cleanupResult = <<>> /\ cleanupResult' # <<>>)
            => lastEvent'.op = "cleanupOk"
       /\ ( /\ view = "temp" /\ cleanupResult # <<>>
             /\ isScanning /\ ~isCleaningUp /\ BagCardinality(net) = 1
             /\ lastEvent'.op \in {"fetchOk", "fetchFail"} )
            => cleanupResult' = <<>>]_vars

\* C15: in LargeFileAnalyzer, once the size threshold was changed and the
\* fetch that the change triggers has completed, the selection set is empty.
ThresholdChangeClearsSelection ==
    (lastEvent.op \in {"fetchOk", "fetchFail"} /\ lastEvent.req.origin = "threshold")
        => selectedFiles = {}

\* the state Scanning: a refresh is in flight after data was loaded
Scanning == isScanning /\ ~loading /\ error = NoError /\ net # EmptyBag

\* C16: while a refresh is in flight after data was loaded, the list fetched
\* before is kept in state and is still displayed: starting the refresh leaves
\* the list as it is, and while the filter leaves any file of the kept list
\* the list area shows its rows, nothing else.
StaleListShownWhileScanning ==
    [][/\ (isScanning' /\ ~isScanning) => files' = files
       /\ (Scanning' /\ DisplayedIds' # {}) => ListBody' = "rows"]_vars

\* how many fetches are in flight
FetchesInFlight == BagCardinality(FetchesOf(net))

\* C17: isScanning reflects the fetches in flight: whenever at least one fetch
\* is in flight, isScanning is true, also when a second fetch was started
\* while an earlier one was in flight and the earlier one has resolved since.
ScanningWhileFetchInFlight ==
    FetchesInFlight > 0 => isScanning

\* C18: fetches are neither deduplicated nor cancelled: a step that sends a
\* fetch adds exactly one to the fetches in flight and takes none of them
\* away, so several are in flight at once; and the list held is always the
\* response that resolved last, whichever request it answers.
LastResolvedFetchWins ==
    /\ [](lastEvent.op = "fetchOk" => files = lastEvent.list)
    /\ [][FetchesInFlight' > FetchesInFlight =>
            /\ FetchesInFlight' = FetchesInFlight + 1
            /\ FetchesOf(net) \sqsubseteq FetchesOf(net')]_vars

\* C18 witness: in LargeFileAnalyzer every request has settled, the one that
\* resolved last was made for the old threshold (the fetch of the threshold
\* change has settled before it), and its list is shown under the new
\* threshold
StaleResponseWitness ==
    /\ view = "large" /\ net = EmptyBag
    /\ lastEvent.op = "fetchOk"
    /\ lastEvent.req.origin = "scan"
    /\ lastEvent.req.minSize = minSizeBytes(100)
    /\ sizeThreshold = 500
    /\ error = NoError /\ RowsShown
    /\ files = <<File1, File2>>

\* how many cleanup handlers have not finished: those awaiting the cleanup
\* response and those awaiting their re-fetch
CleanupsActive == CountCleanups(net) + CountOrigin(net, "cleanup")

\* C19: at most one cleanup is in flight per view at any time: while a cleanup
\* (its re-fetch included) has not finished no second one is dispatched, in
\* TempFileManager and in LargeFileAnalyzer alike.
AtMostOneCleanup == CleanupsActive <= 1

\* C19 amended: in TempFileManager at most one cleanup handler is active at
\* any time, and isCleaningUp is true exactly while one is.
AtMostOneCleanupInTemp ==
    view = "temp" =>
        /\ CleanupsActive <= 1
        /\ isCleaningUp <=> CleanupsActive = 1

\* C19 witness: in TempFileManager a cleanup is awaiting its response while
\* the Clean Selected button is rendered with a non-empty selection and a
\* further request could be sent
OneCleanupWitness ==
    /\ view = "temp" /\ CountCleanups(net) = 1
    /\ SelectionLineShown /\ CanIssue

\* C20: a successful cleanup removes from the selection only what it was
\* sent: the ids that were toggled into the selection after the request was
\* dispatched are still selected when the cleanup handler has finished.
CleanupRemovesOnlySent ==
    [][CleanupHandlerDone' =>
         (selectedFiles \ lastEvent'.req.fileIds) \subseteq selectedFiles']_vars

\* C20 amended: when the handler of a successful cleanup finishes, in either
\* view, the selection set is empty: the ids that were toggled in after the
\* request was dispatched are deselected with the ids that were sent.
CleanupClearsWholeSelection ==
    CleanupHandlerDone => selectedFiles = {}

\* C20 witness: the cleanup has succeeded and its re-fetch is in flight, while
\* the selection holds an id that was not among the fileIds sent
ToggledAfterDispatchWitness ==
    \E r \in InFlight :
        /\ r.kind = "fetch" /\ r.origin = "cleanup"
        /\ selectedFiles \ r.fileIds # {}
        /\ view = "large" /\ BagCardinality(net) = 1

(***************************************************************************)
(* C21, C23: a fetch that fails (under Spec).                              *)
(***************************************************************************)
\* the fetch-failure message of the view
FetchErrorOfView == IF view = "temp" THEN TempFetchError ELSE LargeFetchError

\* C21: when a cleanup has succeeded and its re-fetch fails, the view ends in
\* the error state with the fetch-failure message (not the cleanup-failure
\* one), the list is the one held before (neither the cleanup response nor the
\* failed re-fetch changes it) and the selection set is cleared.
RefetchFailureAfterCleanup ==
    /\ [][lastEvent'.op = "cleanupOk" => files' = files]_vars
    /\ [][(lastEvent'.op = "fetchFail" /\ lastEvent'.req.origin = "cleanup") =>
            /\ error' = FetchErrorOfView
            /\ RenderedView' = "error"
            /\ files' = files
            /\ selectedFiles' = {}
            /\ ~isCleaningUp'
            /\ cleanupResult' = cleanupResult]_vars

\* C21 witness: the re-fetch of a successful cleanup has failed; the list
\* still holds a file that was sent for deletion
RefetchFailureWitness ==
    /\ lastEvent.op = "fetchFail" /\ lastEvent.req.origin = "cleanup"
    /\ view = "temp" /\ net = EmptyBag
    /\ error = TempFetchError
    /\ \E i \in DOMAIN files : files[i].id \in lastEvent.req.fileIds
    /\ selectedFiles = {}
    /\ cleanupResult # <<>>

\* C23: a fetch that fails changes neither the list nor the selection set:
\* the step of the rejection sets error, loading and isScanning and leaves
\* every other cell as it was (the selection and isCleaningUp change in that
\* step only by the cleanup handler that awaited the fetch).
FailedFetchFrame ==
    [][lastEvent'.op = "fetchFail" =>
         /\ files' = files
         /\ lastEvent'.req.origin # "cleanup" =>
                (selectedFiles' = selectedFiles /\ isCleaningUp' = isCleaningUp)
         /\ error' = FetchErrorOfView /\ ~loading' /\ ~isScanning'
         /\ UNCHANGED <<searchTerm, filterType, sortBy, sortOrder,
                        sizeThreshold, cleanupResult>>]_vars

\* C23 witness: in LargeFileAnalyzer a refresh has failed while the list and
\* the selection are not empty
FailedFetchWitness ==
    /\ lastEvent.op = "fetchFail" /\ lastEvent.req.origin = "scan"
    /\ view = "large"
    /\ files = <<File1, File2>>
    /\ selectedFiles = {2}
    /\ error = LargeFetchError

(***************************************************************************)
(* C24: the size classes (under ColorSpec).                                *)
(***************************************************************************)
\* the severity that a class name of getSizeColor or getSizeBadgeColor shows
Severity(class) ==
    CASE class \in {"text-red-600", "bg-red-100 text-red-800"} -> "over 1GB"
      [] class \in {"text-orange-600", "bg-orange-100 text-orange-800"} -> "over 500MB"
      [] class \in {"text-yellow-600", "bg-yellow-100 text-yellow-800"} -> "yellow"
      [] OTHER -> "none"

\* C24: for every size, getSizeColor and getSizeBadgeColor give the same
\* severity: "over 1GB" exactly when size > 1048576000, "over 500MB" exactly
\* when 524288000 < size <= 1048576000, yellow otherwise; 600000000 is
\* "over 500MB" and 2000000000 is "over 1GB".
SizeClassesAgree ==
    /\ \A i \in DOMAIN files :
          LET size == files[i].size
              severity == Severity(getSizeColor(size))
          IN  /\ Severity(getSizeBadgeColor(size)) = severity
              /\ severity = "over 1GB" <=> size > 1048576000
              /\ severity = "over 500MB" <=> (524288000 < size /\ size <= 1048576000)
              /\ severity = "yellow" <=> size <= 524288000
              /\ size = 600000000 => severity = "over 500MB"
              /\ size = 2000000000 => severity = "over 1GB"
    /\ \A i \in DOMAIN rowSizeClasses :
          Severity(rowSizeClasses[i].color) = Severity(rowSizeClasses[i].badge)

\* C24 witness: a row of exactly 1000 * 1024 * 1024 bytes is shown in the
\* orange classes
SizeClassWitness ==
    /\ sortBy = "name"
    /\ Len(rowSizeClasses) = 1
    /\ files[1].size = 1048576000
    /\ rowSizeClasses[1] = [color |-> "text-orange-600",
                            badge |-> "bg-orange-100 text-orange-800"]

(***************************************************************************)
(* C22: the busy flags (under LiveSpec).                                   *)
(***************************************************************************)
\* no busy flag is set
Idle == ~isScanning /\ ~loading /\ ~isCleaningUp

\* C22: if every request settles, the busy flags return to idle: in a run in
\* which the user acts no more from some point on (every later step is the
\* settling of a request), the view reaches a state with isScanning, loading
\* and isCleaningUp false and stays there, whatever succeeded or failed; and
\* loading, once false, is never true again.
BusyFlagsReturnToIdle ==
    /\ (<>[][NetworkStep]_vars) => <>[]Idle
    /\ [][~loading => ~loading']_vars

\* C22 witness: every request has settled after a cleanup that succeeded and
\* a re-fetch that failed, and no flag is set
IdleWitness ==
    /\ mounted /\ net = EmptyBag /\ Idle
    /\ view = "temp"
    /\ lastEvent.op = "fetchFail" /\ lastEvent.req.origin = "cleanup"

====
